---- MODULE Spec2Model ----
(***************************************************************************)
(* Model of the text-structuring core of paper2slides-llm                   *)
(* (src/src/data_processing/extract_paper.py): clean_text,                  *)
(* extract_paper_metadata, split_into_sections, split_into_paragraphs and   *)
(* process_single_pdf.                                                      *)
(*                                                                          *)
(* A Python str is a sequence of one-character strings.  The regular        *)
(* expressions of the source are translated pattern by pattern into         *)
(* operators that compute what Python's backtracking matcher computes:      *)
(* the leftmost match, greedy or lazy as written, and, for re.sub and       *)
(* re.finditer, the scan that resumes at the end of the previous match.     *)
(* The alphabet is ASCII letters, digits, punctuation and the white space   *)
(* characters space, tab and newline.                                       *)
(***************************************************************************)
EXTENDS Integers, Sequences, FiniteSets, TLC

----------------------------------------------------------------------------
(* Characters *)

NL == "\n"

Whitespace == {" ", "\t", "\n"}

Digits == {"0", "1", "2", "3", "4", "5", "6", "7", "8", "9"}

LowerSeq ==
    << "a", "b", "c", "d", "e", "f", "g", "h", "i", "j", "k", "l", "m",
       "n", "o", "p", "q", "r", "s", "t", "u", "v", "w", "x", "y", "z" >>

UpperSeq ==
    << "A", "B", "C", "D", "E", "F", "G", "H", "I", "J", "K", "L", "M",
       "N", "O", "P", "Q", "R", "S", "T", "U", "V", "W", "X", "Y", "Z" >>

LowerLetters == { LowerSeq[i] : i \in 1..Len(LowerSeq) }

UpperLetters == { UpperSeq[i] : i \in 1..Len(UpperSeq) }

Letters == LowerLetters \cup UpperLetters

LowerMap ==
    [ c \in UpperLetters |->
        LowerSeq[CHOOSE i \in 1..Len(UpperSeq) : UpperSeq[i] = c] ]

\* str.lower() on one character
LowerChar(c) == IF c \in UpperLetters THEN LowerMap[c] ELSE c

\* str.lower()
Lower(s) == [ i \in 1..Len(s) |-> LowerChar(s[i]) ]

----------------------------------------------------------------------------
(* Sequence helpers *)

\* the least element of a non-empty set of integers
Min(S) == CHOOSE k \in S : \A m \in S : k <= m

\* n copies of the character c
Rep(c, n) == [ i \in 1..n |-> c ]

\* s[i:j] of Python with 1-based i and exclusive j
Slice(s, i, j) == SubSeq(s, i, j - 1)

\* the first index >= i of s whose character is not in S (Len(s)+1 at the end)
SkipIn(s, i, S) ==
    LET stops == { k \in i..Len(s) : s[k] \notin S }
    IN  IF stops = {} THEN Len(s) + 1 ELSE Min(stops)

\* the first index >= i of s whose character is in S (Len(s)+1 at the end)
SkipNotIn(s, i, S) ==
    LET stops == { k \in i..Len(s) : s[k] \in S }
    IN  IF stops = {} THEN Len(s) + 1 ELSE Min(stops)

\* the greatest index in lo..hi-1 that holds a newline, 0 when there is none
LastNewline(s, lo, hi) ==
    LET back == { d \in 1..(hi - lo) : s[hi - d] = NL }
    IN  IF back = {} THEN 0 ELSE hi - Min(back)

\* the literal w stands in s at index i
StartsAt(s, i, w) ==
    /\ i >= 1
    /\ i + Len(w) - 1 <= Len(s)
    /\ \A k \in 1..Len(w) : s[i + k - 1] = w[k]

\* the lower-case literal w stands in s at index i, ignoring case
StartsAtCI(s, i, w) ==
    /\ i >= 1
    /\ i + Len(w) - 1 <= Len(s)
    /\ \A k \in 1..Len(w) : LowerChar(s[i + k - 1]) = w[k]

\* str.strip()
Strip(s) ==
    LET a == SkipIn(s, 1, Whitespace)
        back == { d \in 0..(Len(s) - a) : s[Len(s) - d] \notin Whitespace }
    IN  IF back = {} THEN << >> ELSE SubSeq(s, a, Len(s) - Min(back))

RECURSIVE Concat(_)
\* the concatenation of a sequence of strings
Concat(ps) == IF ps = << >> THEN << >> ELSE ps[1] \o Concat(Tail(ps))

RECURSIVE Join(_, _)
\* sep.join(ps)
Join(ps, sep) ==
    IF ps = << >> THEN << >>
    ELSE IF Len(ps) = 1 THEN ps[1]
    ELSE ps[1] \o sep \o Join(Tail(ps), sep)

RECURSIVE Scan(_, _)
\* The successive non-overlapping matches of a pattern in a text from index
\* i on, as re.sub, re.finditer and str.split find them: the leftmost match,
\* then the leftmost match that begins at or after its end, and so on.
\* ends[j] is the index after the match that begins at index j of the text,
\* 0 for none; the result is the sequence of << begin, end >>.
Scan(ends, i) ==
    LET found == { j \in i..Len(ends) : ends[j] # 0 }
    IN  IF found = {} THEN << >>
        ELSE LET j == Min(found)
             IN  << << j, ends[j] >> >> \o Scan(ends, ends[j])

\* s with every match of ms replaced: with[k] is what replaces match ms[k]
Replaced(s, ms, with) ==
    LET Before(k) == Slice(s, IF k = 1 THEN 1 ELSE ms[k - 1][2],
                              IF k > Len(ms) THEN Len(s) + 1 ELSE ms[k][1])
    IN  Concat([ k \in 1..(2 * Len(ms) + 1) |->
                   IF k % 2 = 1 THEN Before((k + 1) \div 2)
                   ELSE with[k \div 2] ])

\* the pieces of s between the matches of ms
Between(s, ms) ==
    [ k \in 1..(Len(ms) + 1) |->
        Slice(s, IF k = 1 THEN 1 ELSE ms[k - 1][2],
                 IF k > Len(ms) THEN Len(s) + 1 ELSE ms[k][1]) ]

\* the indices of s that hold a newline, ascending
NewlineIndices(s) ==
    SelectSeq([ k \in 1..Len(s) |-> k ], LAMBDA k : s[k] = NL)

\* str.split('\n')
SplitNewline(s) ==
    LET at == NewlineIndices(s)
    IN  [ k \in 1..(Len(at) + 1) |->
            Slice(s, IF k = 1 THEN 1 ELSE at[k - 1] + 1,
                     IF k > Len(at) THEN Len(s) + 1 ELSE at[k]) ]

\* '\n\n' at index i: the index after it, 0 when it is not there
DoubleNewline(s, i) ==
    IF StartsAt(s, i, << NL, NL >>) THEN i + 2 ELSE 0

\* str.split('\n\n')
SplitDoubleNewline(s) ==
    Between(s, Scan([ j \in 1..Len(s) |-> DoubleNewline(s, j) ], 1))

\* str.splitlines(): as split on newline, without the empty piece that a
\* final newline (or the empty string) leaves at the end
SplitLines(s) ==
    LET ps == SplitNewline(s)
    IN  IF ps[Len(ps)] = << >> THEN SubSeq(ps, 1, Len(ps) - 1) ELSE ps

\* the sequences over S of length at most n
SeqsUpTo(S, n) == UNION { [ 1..k -> S ] : k \in 0..n }

----------------------------------------------------------------------------
(* clean_text *)

\* r'\n\s*\d+\s*\n' at index i: the index after the match, 0 for no match
PageNumberMatch(s, i) ==
    IF s[i] # NL THEN 0
    ELSE LET j == SkipIn(s, i + 1, Whitespace)
             k == SkipIn(s, j, Digits)
             l == SkipIn(s, k, Whitespace)
             n == LastNewline(s, k, l)
         IN  IF k > j /\ n > 0 THEN n + 1 ELSE 0

PageWord == << "P", "a", "g", "e", " " >>

\* r'\n\s*Page \d+.*?\n' at index i: the index after the match, 0 for none
PageFooterMatch(s, i) ==
    IF s[i] # NL THEN 0
    ELSE LET j == SkipIn(s, i + 1, Whitespace)
             d == j + Len(PageWord)
             k == SkipIn(s, d, Digits)
             n == SkipNotIn(s, k, { NL })
         IN  IF StartsAt(s, j, PageWord) /\ k > d /\ n <= Len(s)
             THEN n + 1 ELSE 0

\* r'([a-z])-\n([a-z])' at index i: the index after the match, 0 for none
HyphenBreakMatch(s, i) ==
    IF /\ i + 3 <= Len(s)
       /\ s[i] \in LowerLetters
       /\ s[i + 1] = "-"
       /\ s[i + 2] = NL
       /\ s[i + 3] \in LowerLetters
    THEN i + 4 ELSE 0

\* r'\n\s*\n' at index i: the index after the match, 0 for no match
BlankRunMatch(s, i) ==
    IF s[i] # NL THEN 0
    ELSE LET l == SkipIn(s, i + 1, Whitespace)
             n == LastNewline(s, i + 1, l)
         IN  IF n > 0 THEN n + 1 ELSE 0

\* r'[ \t]+' at index i: the index after the match, 0 for no match
SpaceRunMatch(s, i) ==
    IF s[i] \in { " ", "\t" } THEN SkipIn(s, i, { " ", "\t" }) ELSE 0

\* the replacement '\n'
OneNewline(s, m) == << NL >>

\* the replacement '\n\n'
TwoNewlines(s, m) == << NL, NL >>

\* the replacement ' '
OneSpace(s, m) == << " " >>

\* the replacement r'\1\2'
BothLetters(s, m) == << s[m[1]], s[m[1] + 3] >>

\* re.sub(r'\n\s*\d+\s*\n', '\n', text)
SubPageNumbers(s) ==
    LET ms == Scan([ j \in 1..Len(s) |-> PageNumberMatch(s, j) ], 1)
    IN  Replaced(s, ms, [ k \in 1..Len(ms) |-> OneNewline(s, ms[k]) ])

\* re.sub(r'\n\s*Page \d+.*?\n', '\n', text)
SubPageFooters(s) ==
    LET ms == Scan([ j \in 1..Len(s) |-> PageFooterMatch(s, j) ], 1)
    IN  Replaced(s, ms, [ k \in 1..Len(ms) |-> OneNewline(s, ms[k]) ])

\* re.sub(r'([a-z])-\n([a-z])', r'\1\2', text)
SubHyphenBreaks(s) ==
    LET ms == Scan([ j \in 1..Len(s) |-> HyphenBreakMatch(s, j) ], 1)
    IN  Replaced(s, ms, [ k \in 1..Len(ms) |-> BothLetters(s, ms[k]) ])

\* re.sub(r'\n\s*\n', '\n\n', text)
SubBlankRuns(s) ==
    LET ms == Scan([ j \in 1..Len(s) |-> BlankRunMatch(s, j) ], 1)
    IN  Replaced(s, ms, [ k \in 1..Len(ms) |-> TwoNewlines(s, ms[k]) ])

\* re.sub(r'[ \t]+', ' ', text)
SubSpaceRuns(s) ==
    LET ms == Scan([ j \in 1..Len(s) |-> SpaceRunMatch(s, j) ], 1)
    IN  Replaced(s, ms, [ k \in 1..Len(ms) |-> OneSpace(s, ms[k]) ])

\* the lines stripped, the blank ones kept
StrippedLinesWithBlanks(s) ==
    LET ls == SplitLines(s) IN [ i \in 1..Len(ls) |-> Strip(ls[i]) ]

\* [line.strip() for line in text.splitlines() if line.strip()]
StrippedLines(s) ==
    LET ls == SplitLines(s)
        st == [ i \in 1..Len(ls) |-> Strip(ls[i]) ]
    IN  SelectSeq(st, LAMBDA l : l # << >>)

clean_text(text) ==
    IF text = << >> THEN << >>
    ELSE LET t1 == SubPageFooters(SubPageNumbers(text))
             t2 == SubHyphenBreaks(t1)
             t3 == SubBlankRuns(t2)
             t4 == SubSpaceRuns(t3)
         IN  Join(StrippedLines(t4), << NL >>)

----------------------------------------------------------------------------
(* split_into_paragraphs *)

\* re.match(r'^\d+$', para) for a stripped para
DigitsOnly(para) ==
    para # << >> /\ \A k \in 1..Len(para) : para[k] \in Digits

\* re.match(r'^Page \d+', para)
PageStart(para) ==
    /\ StartsAt(para, 1, PageWord)
    /\ Len(para) > Len(PageWord)
    /\ para[Len(PageWord) + 1] \in Digits

DecorationChars == Digits \cup Whitespace \cup { "-", ".", "(", ")" }

\* re.match(r'^[\d\s\-\.\(\)]+$', para) for a stripped para
DecorationOnly(para) ==
    para # << >> /\ \A k \in 1..Len(para) : para[k] \in DecorationChars

\* the length test with <= for <
TooShortOffByOne(para, min_length) == Len(para) <= min_length

\* the length test of line 147: the block is skipped
TooShort(para, min_length) == Len(para) < min_length

\* a stripped block is kept by the loop body of lines 143-158
KeepParagraph(para, min_length) ==
    /\ ~ TooShort(para, min_length)
    /\ ~ (DigitsOnly(para) \/ PageStart(para))
    /\ ~ DecorationOnly(para)

split_into_paragraphs(text, min_length) ==
    LET paragraphs == SplitDoubleNewline(text)
        stripped == [ i \in 1..Len(paragraphs) |-> Strip(paragraphs[i]) ]
    IN  SelectSeq(stripped, LAMBDA para : KeepParagraph(para, min_length))

----------------------------------------------------------------------------
(* extract_paper_metadata *)

TitleScanLines == 20

TitleMinLen == 20

TitleMaxLen == 200

WordAbstract == << "a", "b", "s", "t", "r", "a", "c", "t" >>

WordIntroduction ==
    << "i", "n", "t", "r", "o", "d", "u", "c", "t", "i", "o", "n" >>

WordArxiv == << "a", "r", "x", "i", "v" >>

WordKeyword == << "k", "e", "y", "w", "o", "r", "d" >>

WordKeywords == << "k", "e", "y", "w", "o", "r", "d", "s" >>

\* the literal w occurs somewhere in s
Contains(s, w) == \E i \in 1..(Len(s) - Len(w) + 1) : StartsAt(s, i, w)

\* re.search(r'^\d+\.|abstract|introduction|arxiv', line.lower())
NotATitle(line) ==
    LET low == Lower(line)
        k == SkipIn(low, 1, Digits)
    IN  \/ (k > 1 /\ k <= Len(low) /\ low[k] = ".")
        \/ Contains(low, WordAbstract)
        \/ Contains(low, WordIntroduction)
        \/ Contains(low, WordArxiv)

\* the length test with >= for >
TitleLengthFrom20(line) == Len(line) >= TitleMinLen /\ Len(line) < TitleMaxLen

\* len(line) > 20 and len(line) < 200
TitleLength(line) == Len(line) > TitleMinLen /\ Len(line) < TitleMaxLen

TitleCandidate(line) == TitleLength(line) /\ ~ NotATitle(line)

\* the lines without the limit [:20]
AllLines(text) == SplitNewline(text)

\* text.split('\n')[:20]
LeadingLines(text) ==
    LET ls == SplitNewline(text)
    IN  IF Len(ls) > TitleScanLines THEN SubSeq(ls, 1, TitleScanLines) ELSE ls

title_candidates(text) == SelectSeq(LeadingLines(text), TitleCandidate)

\* r'\n\s*\n' matches at index t (a lookahead alternative)
BlankLineAt(s, t) ==
    /\ t <= Len(s)
    /\ s[t] = NL
    /\ LastNewline(s, t + 1, SkipIn(s, t + 1, Whitespace)) > 0

\* the lookahead without its last alternative
AbstractEndNoKeywords(s, t) ==
    \/ BlankLineAt(s, t)
    \/ StartsAtCI(s, t, << NL >> \o WordIntroduction)
    \/ StartsAt(s, t, << NL, "1", "." >>)

\* (?=\n\s*\n|\nintroduction|\n1\.|\nkeywords) holds at index t
AbstractEnd(s, t) ==
    \/ BlankLineAt(s, t)
    \/ StartsAtCI(s, t, << NL >> \o WordIntroduction)
    \/ StartsAt(s, t, << NL, "1", "." >>)
    \/ StartsAtCI(s, t, << NL >> \o WordKeywords)

\* (?=\n\s*\n|\nintroduction|\n1\.) holds at index t
KeywordsEnd(s, t) ==
    \/ BlankLineAt(s, t)
    \/ StartsAtCI(s, t, << NL >> \o WordIntroduction)
    \/ StartsAt(s, t, << NL, "1", "." >>)

\* n, n-1, ..., 0
CountDown(n) == [ k \in 1..(n + 1) |-> n + 1 - k ]

\* r'\s*[:\-]?\s*' from index p: the indices at which it can end, in the
\* order the backtracking matcher tries them (each \s* longest first, the
\* optional separator taken before it is skipped)
SeparatorEnds(s, p) ==
    LET w1 == SkipIn(s, p, Whitespace) - p
        After(q) ==
            LET taken ==
                    IF q <= Len(s) /\ s[q] \in { ":", "-" }
                    THEN LET w2 == SkipIn(s, q + 1, Whitespace) - (q + 1)
                         IN  [ k \in 1..(w2 + 1) |-> q + 1 + CountDown(w2)[k] ]
                    ELSE << >>
                w3 == SkipIn(s, q, Whitespace) - q
            IN  taken \o [ k \in 1..(w3 + 1) |-> q + CountDown(w3)[k] ]
    IN  Concat([ k \in 1..(w1 + 1) |-> After(p + CountDown(w1)[k]) ])

\* r'abstract' at index i, ignoring case: the indices after it
AbstractAnchor(s, i) ==
    IF StartsAtCI(s, i, WordAbstract) THEN << i + Len(WordAbstract) >>
    ELSE << >>

\* r'keywords?' at index i, ignoring case: the indices after it, the
\* optional s taken first
KeywordsAnchor(s, i) ==
    IF StartsAtCI(s, i, WordKeywords)
    THEN << i + Len(WordKeywords), i + Len(WordKeyword) >>
    ELSE IF StartsAtCI(s, i, WordKeyword) THEN << i + Len(WordKeyword) >>
    ELSE << >>

\* re.search(anchor \s*[:\-]?\s* (.*?) (?=end), IGNORECASE | DOTALL):
\* << start, stop >> of group 1 (s[start:stop], stop exclusive), << >> for
\* no match; anchors[i] are the indices after the anchor at index i, ends
\* the indices at which the lookahead holds.
\* The match is at the leftmost index where some way of
\* matching the prefix is followed by an end; there the first such way
\* in backtracking order is taken and the lazy group stops at the first end.
CaptureAfter(s, anchors, ends) ==
    LET Starts(i) ==
            LET a == anchors[i]
            IN  Concat([ k \in 1..Len(a) |-> SeparatorEnds(s, a[k]) ])
        Good(c) == \E t \in ends : t >= c
        Hit(i) == \E k \in 1..Len(Starts(i)) : Good(Starts(i)[k])
        hits == { i \in 1..Len(s) : Hit(i) }
    IN  IF hits = {} THEN << >>
        ELSE LET i == CHOOSE h \in hits : \A m \in hits : h <= m
                 st == Starts(i)
                 k == CHOOSE n \in 1..Len(st) :
                          Good(st[n]) /\ \A m \in 1..(n - 1) : ~ Good(st[m])
                 c == st[k]
                 t == CHOOSE e \in ends :
                          e >= c /\ \A m \in ends : m >= c => e <= m
             IN  << c, t >>

abstract_match(text) ==
    CaptureAfter(text, [ i \in 1..Len(text) |-> AbstractAnchor(text, i) ],
                 { t \in 1..Len(text) : AbstractEnd(text, t) })

keywords_match(text) ==
    CaptureAfter(text, [ i \in 1..Len(text) |-> KeywordsAnchor(text, i) ],
                 { t \in 1..Len(text) : KeywordsEnd(text, t) })

\* a dict with the single key k
Entry(k, v) == [ x \in { k } |-> v ]

\* the dict without keys
NoEntry == [ x \in { } |-> << >> ]

extract_paper_metadata(text) ==
    LET cands == title_candidates(text)
        am == abstract_match(text)
        km == keywords_match(text)
    IN  (IF cands # << >> THEN Entry("title", cands[1]) ELSE NoEntry)
        @@ (IF am # << >>
            THEN Entry("abstract", Strip(Slice(text, am[1], am[2])))
            ELSE NoEntry)
        @@ (IF km # << >>
            THEN Entry("keywords", Strip(Slice(text, km[1], km[2])))
            ELSE NoEntry)

----------------------------------------------------------------------------
(* split_into_sections *)

\* len(section_title) < 100 and len(section_content) > 100
SectionMinLen == 100

\* the title of the synthetic first boundary
StartTitle == << "開", "始" >>

Vocabulary ==
    << << "a", "b", "s", "t", "r", "a", "c", "t" >>,
       << "i", "n", "t", "r", "o", "d", "u", "c", "t", "i", "o", "n" >>,
       << "r", "e", "l", "a", "t", "e", "d", " ", "w", "o", "r", "k" >>,
       << "m", "e", "t", "h", "o", "d", "o", "l", "o", "g", "y" >>,
       << "e", "x", "p", "e", "r", "i", "m", "e", "n", "t", "s" >>,
       << "r", "e", "s", "u", "l", "t", "s" >>,
       << "c", "o", "n", "c", "l", "u", "s", "i", "o", "n" >>,
       << "r", "e", "f", "e", "r", "e", "n", "c", "e", "s" >> >>

\* A match of a heading pattern at index i is << end, from, to >>: the index
\* after the match and group 1 = s[from:to] (to exclusive); << >> is no match.

\* r'\n\s*(\d+\.?\s+[A-Z][^.\n]*)\n' with re.IGNORECASE at index i
NumberedHeading(s, i) ==
    IF s[i] # NL THEN << >>
    ELSE LET j == SkipIn(s, i + 1, Whitespace)
             k == SkipIn(s, j, Digits)
             d == IF k <= Len(s) /\ s[k] = "." THEN k + 1 ELSE k
             m == SkipIn(s, d, Whitespace)
             e == SkipNotIn(s, m + 1, { ".", NL })
         IN  IF /\ k > j
                /\ m > d
                /\ m <= Len(s)
                /\ s[m] \in Letters
                /\ e <= Len(s)
                /\ s[e] = NL
             THEN << e + 1, j, e >>
             ELSE << >>

\* r'\n\s*([A-Z][A-Z\s]{2,})\n' with re.IGNORECASE at index i
CapsHeading(s, i) ==
    IF s[i] # NL THEN << >>
    ELSE LET j == SkipIn(s, i + 1, Whitespace)
             r == SkipIn(s, j + 1, Letters \cup Whitespace)
             e == LastNewline(s, j + 3, r)
         IN  IF j <= Len(s) /\ s[j] \in Letters /\ e > 0
             THEN << e + 1, j, e >>
             ELSE << >>

\* r'\n\s*(Abstract|...|References)\s*\n' with re.IGNORECASE at index i
VocabularyHeading(s, i) ==
    IF s[i] # NL THEN << >>
    ELSE LET j == SkipIn(s, i + 1, Whitespace)
             End(w) ==
                 IF StartsAtCI(s, j, Vocabulary[w])
                 THEN LastNewline(s, j + Len(Vocabulary[w]),
                          SkipIn(s, j + Len(Vocabulary[w]), Whitespace))
                 ELSE 0
             ws == { w \in 1..Len(Vocabulary) : End(w) > 0 }
         IN  IF ws = {} THEN << >>
             ELSE LET w == CHOOSE x \in ws : \A y \in ws : x <= y
                  IN  << End(w) + 1, j, j + Len(Vocabulary[w]) >>

\* the index after a heading match, 0 for no match
NumberedEnd(s, i) ==
    IF NumberedHeading(s, i) = << >> THEN 0 ELSE NumberedHeading(s, i)[1]

CapsEnd(s, i) ==
    IF CapsHeading(s, i) = << >> THEN 0 ELSE CapsHeading(s, i)[1]

VocabularyEnd(s, i) ==
    IF VocabularyHeading(s, i) = << >> THEN 0 ELSE VocabularyHeading(s, i)[1]

\* BreaksOf with match.end() for match.start()
BreaksAtMatchEnd(ms, titles) ==
    LET all == [ k \in 1..Len(ms) |->
                   [ pos |-> ms[k][2] - 1, title |-> titles[k] ] ]
    IN  SelectSeq(all, LAMBDA b : Len(b.title) < SectionMinLen)

\* Lines 102-106 for one pattern: ms are the matches of re.finditer and
\* titles[k] is group 1 of match k, stripped; a boundary
\* (match.start(), title) is kept for every title shorter than 100.
BreaksOf(ms, titles) ==
    LET all == [ k \in 1..Len(ms) |->
                   [ pos |-> ms[k][1] - 1, title |-> titles[k] ] ]
    IN  SelectSeq(all, LAMBDA b : Len(b.title) < SectionMinLen)

NumberedBreaks(s) ==
    LET ms == Scan([ j \in 1..Len(s) |-> NumberedEnd(s, j) ], 1)
    IN  BreaksOf(ms, [ k \in 1..Len(ms) |->
            LET g == NumberedHeading(s, ms[k][1])
            IN  Strip(Slice(s, g[2], g[3])) ])

CapsBreaks(s) ==
    LET ms == Scan([ j \in 1..Len(s) |-> CapsEnd(s, j) ], 1)
    IN  BreaksOf(ms, [ k \in 1..Len(ms) |->
            LET g == CapsHeading(s, ms[k][1])
            IN  Strip(Slice(s, g[2], g[3])) ])

VocabularyBreaks(s) ==
    LET ms == Scan([ j \in 1..Len(s) |-> VocabularyEnd(s, j) ], 1)
    IN  BreaksOf(ms, [ k \in 1..Len(ms) |->
            LET g == VocabularyHeading(s, ms[k][1])
            IN  Strip(Slice(s, g[2], g[3])) ])

\* section_breaks before the sort (lines 99-106)
FoundBreaks(s) ==
    << [ pos |-> 0, title |-> StartTitle ] >>
        \o NumberedBreaks(s)
        \o CapsBreaks(s)
        \o VocabularyBreaks(s)

RECURSIVE InsertBreakBeforeEqual(_, _)
\* InsertBreak for a sort that is not stable: b is put before the elements
\* of the same offset
InsertBreakBeforeEqual(bs, b) ==
    IF bs = << >> THEN << b >>
    ELSE IF bs[Len(bs)].pos < b.pos THEN Append(bs, b)
    ELSE Append(InsertBreakBeforeEqual(SubSeq(bs, 1, Len(bs) - 1), b),
                bs[Len(bs)])

RECURSIVE InsertBreak(_, _)
\* b put behind every element of the sorted sequence bs whose pos is <= b.pos
InsertBreak(bs, b) ==
    IF bs = << >> THEN << b >>
    ELSE IF bs[Len(bs)].pos <= b.pos THEN Append(bs, b)
    ELSE Append(InsertBreak(SubSeq(bs, 1, Len(bs) - 1), b), bs[Len(bs)])

RECURSIVE SortBreaks(_, _)
\* list.sort(key=lambda x: x[0]): stable, ascending by offset
SortBreaks(bs, n) ==
    IF n = 0 THEN << >> ELSE InsertBreak(SortBreaks(bs, n - 1), bs[n])

\* section_breaks with the sort of line 109 left out
UnsortedBreaks(s) == FoundBreaks(s)

\* section_breaks as the loops of lines 112-131 read it
section_breaks(s) ==
    LET found == FoundBreaks(s) IN SortBreaks(found, Len(found))

\* the length test with >= for >
LongEnoughFrom100(content) == Len(content) >= SectionMinLen

\* len(section_content) > 100
LongEnough(content) == Len(content) > SectionMinLen

\* SectionsOf with lines 125-131 left out: the last boundary is not handled
SectionsWithoutLast(s, breaks) ==
    LET n == Len(breaks)
        Cut(i) ==
            [ title |-> breaks[i].title,
              content |-> Strip(Slice(s, breaks[i].pos + 1,
                                      breaks[i + 1].pos + 1)),
              start |-> breaks[i].pos,
              stop |-> breaks[i + 1].pos ]
        all == [ i \in 1..(n - 1) |-> Cut(i) ]
    IN  SelectSeq(all, LAMBDA sec : LongEnough(sec.content))

\* Lines 112-131.  start and stop are the 0-based offsets of the slice the
\* section was cut from (text[start:stop]); the dict of the source holds
\* title and content only.
SectionsOf(s, breaks) ==
    LET n == Len(breaks)
        Stop(i) == IF i < n THEN breaks[i + 1].pos ELSE Len(s)
        Cut(i) ==
            [ title |-> breaks[i].title,
              content |-> Strip(Slice(s, breaks[i].pos + 1, Stop(i) + 1)),
              start |-> breaks[i].pos,
              stop |-> Stop(i) ]
        all == [ i \in 1..n |-> Cut(i) ]
    IN  SelectSeq(all, LAMBDA sec : LongEnough(sec.content))

split_into_sections(text) == SectionsOf(text, section_breaks(text))

----------------------------------------------------------------------------
(* State *)

VARIABLES
    pc,          \* the place the call has reached
    text,        \* the argument: the raw text (clean_text, process_single_pdf)
                 \* or the text handed to an extractor
    min_length,  \* the second argument of split_into_paragraphs
    cleaned,     \* cleaned_text, the value clean_text returned
    recleaned,   \* the value clean_text returned for cleaned
    metadata,    \* the value extract_paper_metadata returned
    sections,    \* the value split_into_sections returned
    paragraphs,  \* the value split_into_paragraphs returned
    result,      \* the value process_single_pdf returned
    pdf_path,    \* pdf_path.name, the file name of the document
    files,       \* the record files under data/processed: name -> content
    pdf_files,   \* the documents of a batch run, in the order of the loop
    command,     \* the batch loop that runs: process_all_pdfs or main
    index,       \* how many documents of pdf_files the loop has taken
    results,     \* the list results of process_all_pdfs
    slides,      \* the records paper_to_slides was handed, in order
    ran          \* the extractors that have returned, when run as tasks

\* the state of a batch run
batch == << pdf_files, command, index, results, slides >>

vars ==
    << pc, text, min_length, cleaned, recleaned, metadata, sections,
       paragraphs, result, pdf_path, files, batch, ran >>

\* no batch runs: one call is made
NoBatch ==
    /\ pdf_files = << >>
    /\ command = "call"
    /\ index = 0
    /\ results = << >>
    /\ slides = << >>

\* the default min_length=50 of split_into_paragraphs
DefaultMinLength == 50

\* the value of a variable no call has assigned yet
Unset == << >>

\* Python's None as a return value
None == [ none |-> TRUE ]

\* the name of the document where the call is not about a file
NoName == << >>

Start(place, texts, lengths, names) ==
    /\ pc = place
    /\ text \in texts
    /\ min_length \in lengths
    /\ pdf_path \in names
    /\ files = NoEntry
    /\ cleaned = Unset
    /\ recleaned = Unset
    /\ metadata = Unset
    /\ sections = Unset
    /\ paragraphs = Unset
    /\ result = Unset
    /\ NoBatch
    /\ ran = {}

----------------------------------------------------------------------------
(* clean_text applied to raw text, and again to its own output *)

MaxCleanPieces == 5

CleanPieces ==
    { << "a" >>, << "b", "-" >>, << NL >>, << "1" >>, << " " >>,
      << "P", "a", "g", "e", " ", "5" >> }

CleanTexts == { Concat(ps) : ps \in SeqsUpTo(CleanPieces, MaxCleanPieces) }

InitClean == Start("clean_text", CleanTexts, { DefaultMinLength }, { NoName })

CleanText ==
    /\ pc = "clean_text"
    /\ cleaned' = clean_text(text)
    /\ pc' = "cleaned"
    /\ UNCHANGED << text, min_length, recleaned, metadata, sections,
                    paragraphs, result, pdf_path, files >>
    /\ UNCHANGED << batch, ran >>

CleanAgain ==
    /\ pc = "cleaned"
    /\ recleaned' = clean_text(cleaned)
    /\ pc' = "recleaned"
    /\ UNCHANGED << text, min_length, cleaned, metadata, sections,
                    paragraphs, result, pdf_path, files >>
    /\ UNCHANGED << batch, ran >>

NextClean == CleanText \/ CleanAgain

SpecClean == InitClean /\ [][NextClean]_vars

(* C1: normalisation is idempotent: clean_text applied to its own output
   returns that output unchanged. *)
C1_Idempotent == pc = "recleaned" => recleaned = cleaned

\* two blocks that end and begin with a letter, with nothing but white
\* space holding at least one blank line between them
BlankLineGap(s) ==
    \E i \in 1..Len(s) :
        /\ s[i] \in Letters
        /\ LET j == SkipIn(s, i + 1, Whitespace)
           IN  /\ j <= Len(s)
               /\ s[j] \in Letters
               /\ Cardinality({ k \in (i + 1)..(j - 1) : s[k] = NL }) >= 2

\* two blocks with exactly one blank line between them
OneBlankLine(s) ==
    \E i \in 1..(Len(s) - 3) :
        /\ s[i] \notin Whitespace
        /\ s[i + 1] = NL
        /\ s[i + 2] = NL
        /\ s[i + 3] \notin Whitespace

(* C3: normalisation keeps paragraph boundaries: when blank lines separate
   two blocks of the raw text, the output of clean_text separates blocks by
   exactly one blank line. *)
C3_ParagraphBoundaryKept ==
    (pc = "cleaned" /\ BlankLineGap(text)) => OneBlankLine(cleaned)

(* C5: no line of the output of clean_text consists only of digits and no
   line is a 'Page N' footer, whatever the position of such a line in the
   raw text. *)
C5_NoPageLines ==
    pc = "cleaned" =>
        \A k \in 1..Len(SplitNewline(cleaned)) :
            /\ ~ DigitsOnly(SplitNewline(cleaned)[k])
            /\ ~ PageStart(SplitNewline(cleaned)[k])

\* s without the hyphen and the newline of every place where a lowercase
\* letter, '-', a newline and a lowercase letter follow one another
WithoutWraps(s) ==
    LET Wrap(i) == HyphenBreakMatch(s, i) # 0
        kept == SelectSeq([ k \in 1..Len(s) |-> k ],
                    LAMBDA k : ~ ((k >= 2 /\ Wrap(k - 1))
                                  \/ (k >= 3 /\ Wrap(k - 2))))
    IN  [ n \in 1..Len(kept) |-> s[kept[n]] ]

(* C6: the hyphen step of clean_text (line 45) deletes the hyphen and the
   newline of every hyphenated line-wrap of the text it is applied to, and
   nothing else. *)
C6_EveryWrapRejoined ==
    pc = "cleaned" =>
        LET t1 == SubPageFooters(SubPageNumbers(text))
        IN  SubHyphenBreaks(t1) = WithoutWraps(t1)

----------------------------------------------------------------------------
(* split_into_paragraphs applied to a text and a min_length *)

MaxParagraphPieces == 4

ParagraphPieces ==
    { << NL, NL >>, << NL >>, << " " >>,
      << "P", "a", "g", "e", " ", "5" >>, << "4", "2" >>,
      << "(", "1", ".", "2", ")" >>,
      Rep("x", DefaultMinLength), Rep("y", DefaultMinLength - 1) }

ParagraphTexts ==
    { Concat(ps) : ps \in SeqsUpTo(ParagraphPieces, MaxParagraphPieces) }

MinLengths == { 0, 1, DefaultMinLength, DefaultMinLength + 1 }

InitParagraphs ==
    Start("split_into_paragraphs", ParagraphTexts, MinLengths, { NoName })

SplitParagraphs ==
    /\ pc = "split_into_paragraphs"
    /\ paragraphs' = split_into_paragraphs(text, min_length)
    /\ pc' = "paragraphs"
    /\ UNCHANGED << text, min_length, cleaned, recleaned, metadata,
                    sections, result, pdf_path, files >>
    /\ UNCHANGED << batch, ran >>

NextParagraphs == SplitParagraphs

SpecParagraphs == InitParagraphs /\ [][NextParagraphs]_vars

\* the index at which the run of newlines that holds index k begins
NewlineRunStart(s, k) ==
    LET back == { d \in 0..(k - 1) : s[k - d] # NL }
    IN  IF back = {} THEN 1 ELSE k - Min(back) + 1

\* the blank-line separators of s: the pairs of newlines, counted off from
\* the beginning of each run of newlines
BlankLineSeparators(s) ==
    SelectSeq([ k \in 1..Len(s) |-> k ],
        LAMBDA k : /\ k < Len(s)
                   /\ s[k] = NL
                   /\ s[k + 1] = NL
                   /\ (k - NewlineRunStart(s, k)) % 2 = 0)

\* the blocks of s between its blank-line separators, trimmed
TrimmedBlocks(s) ==
    LET at == BlankLineSeparators(s)
    IN  [ k \in 1..(Len(at) + 1) |->
            Strip(Slice(s, IF k = 1 THEN 1 ELSE at[k - 1] + 2,
                           IF k > Len(at) THEN Len(s) + 1 ELSE at[k])) ]

\* A trimmed block passes the filters the paragraphs are selected by.  The
\* empty block holds no digit and no decoration, so it is neither
\* digits-only nor decoration-only: it passes when min_length allows it.
PassesFilters(b, n) ==
    /\ Len(b) >= n
    /\ (b = << >> \/ \E k \in 1..Len(b) : b[k] \notin Digits)
    /\ ~ (/\ Len(b) >= 6
          /\ SubSeq(b, 1, 5) = << "P", "a", "g", "e", " " >>
          /\ b[6] \in Digits)
    /\ \/ b = << >>
       \/ \E k \in 1..Len(b) :
              b[k] \notin (Digits \cup Whitespace \cup { "-", ".", "(", ")" })

(* C7: the result of split_into_paragraphs is exactly, and in the original
   order, the sequence of the trimmed blank-line-separated blocks of the
   text that have length >= min_length and are neither digits-only, nor
   begin with 'Page <digit>', nor are made only of digits, white space,
   hyphens, periods and parentheses. *)
C7_ParagraphsAreFilteredBlocks ==
    pc = "paragraphs" =>
        paragraphs =
            SelectSeq(TrimmedBlocks(text),
                LAMBDA b : PassesFilters(b, min_length))

\* of two blocks the first, a page footer long enough to pass the length
\* test, was filtered out and the second, exactly min_length long, was emitted
C7_Witness ==
    /\ pc = "paragraphs"
    /\ Len(TrimmedBlocks(text)) = 2
    /\ PageStart(TrimmedBlocks(text)[1])
    /\ Len(TrimmedBlocks(text)[1]) >= min_length
    /\ Len(paragraphs) = 1
    /\ Len(paragraphs[1]) = min_length
    /\ min_length = DefaultMinLength

----------------------------------------------------------------------------
(* extract_paper_metadata applied to a text *)

MaxTitleLines == 2

MaxBodyPieces == 2

\* lines of the lengths around the two limits, an excluded line of each
\* kind and a line too short to be a title
TitleLines ==
    { Rep("t", TitleMinLen), Rep("u", TitleMinLen + 1),
      Rep("v", TitleMaxLen - 1), Rep("w", TitleMaxLen),
      Rep("t", 10) \o << "a", "r", "X", "i", "v" >> \o Rep("t", 10),
      << "1", ".", " " >> \o Rep("t", 22),
      << "a", "b" >> }

\* the numbers of short lines put before the lines of a text
PaddingLines == { 0, TitleScanLines - 1, TitleScanLines }

TitleTexts ==
    { Join(Rep(<< "a", "b" >>, n) \o ls, << NL >>) :
        n \in PaddingLines, ls \in SeqsUpTo(TitleLines, MaxTitleLines) }

AbstractTokens ==
    { << >>, << "A", "b", "s", "t", "r", "a", "c", "t" >>,
      << "A", "B", "S", "T", "R", "A", "C", "T" >> }

AbstractSeparators ==
    { << >>, << ":", " " >>, << " ", "-", " " >>, << NL, NL >>,
      << NL, NL, ":", " " >> }

AbstractBodyPieces ==
    { << "f", "o", "o" >>, << "X", "." >>, << " " >>, << NL >>,
      << "i", "n", "t", "r", "o", "d", "u", "c", "t", "i", "o", "n" >>,
      << "1", "." >> }

AbstractEndings ==
    { << >>, << NL, NL >>, << NL, " ", NL >>,
      << NL, "I", "n", "t", "r", "o", "d", "u", "c", "t", "i", "o", "n" >>,
      << NL, "1", ".", " ", "I" >>,
      << NL, "K", "e", "y", "w", "o", "r", "d", "s", ":", " ", "k" >> }

AbstractTails == { << >>, << NL, "r", "e", "s", "t", NL, NL >> }

AbstractTexts ==
    { tok \o sep \o Concat(body) \o end \o tail :
        tok \in AbstractTokens, sep \in AbstractSeparators,
        body \in SeqsUpTo(AbstractBodyPieces, MaxBodyPieces),
        end \in AbstractEndings, tail \in AbstractTails }

InitMetadata ==
    Start("extract_paper_metadata", TitleTexts \cup AbstractTexts,
          { DefaultMinLength }, { NoName })

ExtractMetadata ==
    /\ pc = "extract_paper_metadata"
    /\ metadata' = extract_paper_metadata(text)
    /\ pc' = "metadata"
    /\ UNCHANGED << text, min_length, cleaned, recleaned, sections,
                    paragraphs, result, pdf_path, files >>
    /\ UNCHANGED << batch, ran >>

NextMetadata == ExtractMetadata

SpecMetadata == InitMetadata /\ [][NextMetadata]_vars

\* the first 20 lines of s
FirstLines(s) ==
    LET ls == SplitNewline(s)
    IN  [ k \in 1..(IF Len(ls) < 20 THEN Len(ls) ELSE 20) |-> ls[k] ]

\* a line matches the exclusion keywords: it begins with a numbered-list
\* marker or holds one of the words abstract, introduction, arxiv in any case
Excluded(line) ==
    \/ \E k \in 2..Len(line) :
           line[k] = "." /\ \A d \in 1..(k - 1) : line[d] \in Digits
    \/ \E i \in 1..Len(line) :
           \/ StartsAtCI(line, i, WordAbstract)
           \/ StartsAtCI(line, i, WordIntroduction)
           \/ StartsAtCI(line, i, WordArxiv)

\* the ones of the first 20 lines of s of a length in lo..hi, not excluded
Eligible(s, lo, hi) ==
    { k \in 1..Len(FirstLines(s)) :
        /\ Len(FirstLines(s)[k]) >= lo
        /\ Len(FirstLines(s)[k]) <= hi
        /\ ~ Excluded(FirstLines(s)[k]) }

\* when exactly one of the first 20 lines has a length in lo..hi and is not
\* excluded, that line is the title
OnlyEligibleIsTitle(lo, hi) ==
    (pc = "metadata" /\ Cardinality(Eligible(text, lo, hi)) = 1) =>
        /\ "title" \in DOMAIN metadata
        /\ \A k \in Eligible(text, lo, hi) :
               metadata.title = FirstLines(text)[k]

(* C8, as claimed: when exactly one of the first 20 lines of the text has a
   length of 20 to 199 characters and does not match the exclusion
   keywords, extract_paper_metadata returns that line as the title. *)
C8_OnlyLine20To199IsTitle == OnlyEligibleIsTitle(20, 199)

(* C8, amended: when exactly one of the first 20 lines of the text has a
   length of 21 to 199 characters and does not match the exclusion
   keywords, extract_paper_metadata returns that line as the title. *)
C8_OnlyLine21To199IsTitle == OnlyEligibleIsTitle(21, 199)

\* the only line of 21 to 199 characters comes after a line of exactly 20
\* and is the title
C8_Witness ==
    /\ pc = "metadata"
    /\ Cardinality(Eligible(text, 21, 199)) = 1
    /\ Cardinality(Eligible(text, 20, 20)) = 1
    /\ \A k \in Eligible(text, 21, 199) :
           /\ \A j \in Eligible(text, 20, 20) : j < k
           /\ metadata.title = FirstLines(text)[k]

(* C14: extract_paper_metadata looks only at the first 20 lines; a line is
   a candidate iff it has more than 20 and fewer than 200 characters, does
   not begin with a numbered-list marker and holds none of the words
   'abstract', 'introduction', 'arxiv' in any case; the title is the first
   candidate in document order, and it is absent when none of the first 20
   lines is a candidate. *)
C14_TitleIsFirstCandidate ==
    pc = "metadata" =>
        LET candidates == Eligible(text, TitleMinLen + 1, TitleMaxLen - 1)
        IN  IF candidates = {}
            THEN "title" \notin DOMAIN metadata
            ELSE /\ "title" \in DOMAIN metadata
                 /\ metadata.title = FirstLines(text)[Min(candidates)]

\* line 20 and line 21 are candidates, different ones, and the title is
\* line 20
C14_Witness ==
    /\ pc = "metadata"
    /\ Eligible(text, TitleMinLen + 1, TitleMaxLen - 1) = { 20 }
    /\ Len(SplitNewline(text)) = 21
    /\ Len(SplitNewline(text)[21]) > TitleMinLen
    /\ Len(SplitNewline(text)[21]) < TitleMaxLen
    /\ ~ Excluded(SplitNewline(text)[21])
    /\ metadata.title = SplitNewline(text)[20]
    /\ metadata.title # SplitNewline(text)[21]

\* the word w, in any case, is in s at index i
WordAt(s, i, w) ==
    i + Len(w) - 1 <= Len(s) /\ Lower(SubSeq(s, i, i + Len(w) - 1)) = w

\* the indices of s at which the token 'abstract' begins
AbstractTokensIn(s) == { i \in 1..Len(s) : WordAt(s, i, WordAbstract) }

\* the index after the first token 'abstract' of s
AfterFirstToken(s) == Min(AbstractTokensIn(s)) + Len(WordAbstract)

\* As claimed, the abstract stops at index t of s: a blank line, the word
\* 'introduction', a line that starts with '1.' or the word 'keywords'.
ClaimedStop(s, t) ==
    \/ /\ s[t] = NL
       /\ \E n \in (t + 1)..Len(s) :
              s[n] = NL /\ \A k \in (t + 1)..(n - 1) : s[k] \in Whitespace
    \/ WordAt(s, t, WordIntroduction)
    \/ s[t] = NL /\ t + 2 <= Len(s) /\ s[t + 1] = "1" /\ s[t + 2] = "."
    \/ WordAt(s, t, WordKeywords)

(* C9, as claimed: whenever the text holds the token 'abstract' (any case),
   the abstract is set, to the trimmed text between the token with its
   optional colon or dash and the first blank line, 'introduction', line
   starting with '1.' or 'keywords' that follows; the abstract is absent
   only when the token does not occur. *)
C9_AbstractWheneverToken ==
    pc = "metadata" =>
        /\ ("abstract" \in DOMAIN metadata) <=> (AbstractTokensIn(text) # {})
        /\ AbstractTokensIn(text) # {} =>
               LET p == AfterFirstToken(text)
                   q == SkipIn(text, p, Whitespace)
                   c == IF q <= Len(text) /\ text[q] \in { ":", "-" }
                        THEN q + 1 ELSE p
                   stops == { t \in c..Len(text) : ClaimedStop(text, t) }
               IN  stops # {} =>
                       metadata.abstract = Strip(Slice(text, c, Min(stops)))

\* The abstract can stop at index t of s: a newline followed by optional
\* white space and a newline, or a newline directly followed by
\* 'introduction', '1.' or 'keywords'.
Stop(s, t) ==
    /\ s[t] = NL
    /\ \/ \E n \in (t + 1)..Len(s) :
              s[n] = NL /\ \A k \in (t + 1)..(n - 1) : s[k] \in Whitespace
       \/ WordAt(s, t + 1, WordIntroduction)
       \/ (t + 2 <= Len(s) /\ s[t + 1] = "1" /\ s[t + 2] = ".")
       \/ WordAt(s, t + 1, WordKeywords)

\* s[p:c] is an optional separator: white space with at most one ':' or '-'
SeparatorOnly(s, p, c) ==
    /\ \A k \in p..(c - 1) : s[k] \in Whitespace \cup { ":", "-" }
    /\ Cardinality({ k \in p..(c - 1) : s[k] \notin Whitespace }) <= 1

(* C9, amended: the abstract is set exactly when the text holds the token
   'abstract' (any case) with a stop at or after its end, a stop being a
   newline followed by optional white space and a newline, or a newline
   directly followed by 'introduction', '1.' or 'keywords'.  It is then the
   trimmed text between an optional separator (white space, at most one
   ':' or '-', white space) after the first token and the first stop from
   there on. *)
C9_AbstractWhenStopFollows ==
    pc = "metadata" =>
        LET stops == { t \in 1..Len(text) : Stop(text, t) }
            set == /\ AbstractTokensIn(text) # {}
                   /\ \E t \in stops : t >= AfterFirstToken(text)
        IN  /\ ("abstract" \in DOMAIN metadata) <=> set
            /\ set =>
                   \E c \in AfterFirstToken(text)..(Len(text) + 1) :
                       /\ SeparatorOnly(text, AfterFirstToken(text), c)
                       /\ \E t \in stops : t >= c
                       /\ metadata.abstract =
                              Strip(Slice(text, c,
                                  Min({ t \in stops : t >= c })))

\* 'Abstract: ' and a body that ends where a line with 'Keywords' begins:
\* the abstract is the body
C9_Witness ==
    /\ pc = "metadata"
    /\ StartsAt(text, 1, << "A", "b", "s", "t", "r", "a", "c", "t", ":", " ",
                            "f", "o", "o", "X", ".", NL, "K", "e", "y" >>)
    /\ "abstract" \in DOMAIN metadata
    /\ metadata.abstract = << "f", "o", "o", "X", "." >>

----------------------------------------------------------------------------
(* split_into_sections applied to a text *)

MaxSectionLines == 4

\* a line of prose of n characters: it ends with a period
Prose(n) == Rep("x", n - 1) \o << "." >>

NumberedLines ==
    { << "1", ".", " ", "I", "n", "t", "r", "o" >>,
      << "2", " ", "C", "o", "n", "c", "l" >> }

LongBodies == { Prose(SectionMinLen + 1) }

\* a blank line, headings of the three kinds and a body of more than 100
SectionLines ==
    { << >>, << "A", "B", "C" >>, << "R", "e", "s", "u", "l", "t", "s" >> }
        \cup NumberedLines \cup LongBodies

\* a numbered heading on the first line, a body, a blank line, a second
\* numbered heading and a second body
TwoSectionTexts ==
    { Join(<< h1, b1, << >>, h2, b2 >>, << NL >>) :
        h1 \in NumberedLines, h2 \in NumberedLines,
        b1 \in LongBodies, b2 \in LongBodies }

MaxEdgeLines == 3

\* a heading and bodies of 100 and 101 characters
EdgeLines ==
    { << "R", "e", "s", "u", "l", "t", "s" >>,
      Prose(SectionMinLen), Prose(SectionMinLen + 1) }

\* texts with slices at the limit of the length filter
EdgeTexts ==
    { Join(ls, << NL >>) : ls \in SeqsUpTo(EdgeLines, MaxEdgeLines) }

SectionTexts ==
    { Join(ls, << NL >>) : ls \in SeqsUpTo(SectionLines, MaxSectionLines) }
        \cup TwoSectionTexts \cup EdgeTexts

InitSections ==
    Start("split_into_sections", SectionTexts, { DefaultMinLength }, { NoName })

SplitSections ==
    /\ pc = "split_into_sections"
    /\ sections' = split_into_sections(text)
    /\ pc' = "sections"
    /\ UNCHANGED << text, min_length, cleaned, recleaned, metadata,
                    paragraphs, result, pdf_path, files >>
    /\ UNCHANGED << batch, ran >>

NextSections == SplitSections

SpecSections == InitSections /\ [][NextSections]_vars

\* a numbered heading line: digits, an optional period, white space and a
\* capitalised word
NumberedLine(line) ==
    \E k \in 2..Len(line) :
        /\ \A d \in 1..(k - 1) : line[d] \in Digits
        /\ \/ line[k] = " " /\ k < Len(line) /\ line[k + 1] \in UpperLetters
           \/ /\ line[k] = "."
              /\ k + 1 < Len(line)
              /\ line[k + 1] = " "
              /\ line[k + 2] \in UpperLetters

\* s is a numbered heading on the first line, a body of more than 100
\* characters, a blank line, a second numbered heading and a second body
TwoSectionText(s) ==
    LET ls == SplitNewline(s)
    IN  /\ Len(ls) = 5
        /\ NumberedLine(ls[1])
        /\ Len(ls[2]) > 100
        /\ ls[3] = << >>
        /\ NumberedLine(ls[4])
        /\ Len(ls[5]) > 100

(* C2: for a text made of a numbered heading on the very first line, a body
   longer than 100 characters, a blank line, a second numbered heading and
   a second body longer than 100 characters, split_into_sections returns
   exactly two sections, titled by the first and by the second heading
   line, each content containing its own body. *)
C2_TwoTitledSections ==
    (pc = "sections" /\ TwoSectionText(text)) =>
        LET ls == SplitNewline(text)
        IN  /\ Len(sections) = 2
            /\ sections[1].title = ls[1]
            /\ sections[2].title = ls[4]
            /\ Contains(sections[1].content, ls[2])
            /\ Contains(sections[2].content, ls[5])

\* the greatest offset of a boundary of s
LastBreak(s) ==
    LET found == FoundBreaks(s)
    IN  CHOOSE g \in { found[k].pos : k \in 1..Len(found) } :
            \A k \in 1..Len(found) : found[k].pos <= g

(* C10: the sections returned by split_into_sections are in strictly
   increasing order of their start offset, the spans text[start:stop] they
   were cut from are pairwise disjoint, and the span of the boundary with
   the greatest offset runs to the end of the text. *)
C10_SectionsOrderedDisjoint ==
    pc = "sections" =>
        LET last == LastBreak(text)
        IN
        /\ \A k \in 1..Len(sections) :
               /\ 0 <= sections[k].start
               /\ sections[k].start < sections[k].stop
               /\ sections[k].stop <= Len(text)
               /\ sections[k].content =
                      Strip(SubSeq(text, sections[k].start + 1,
                                   sections[k].stop))
               /\ sections[k].start = last =>
                      sections[k].stop = Len(text)
        /\ \A i \in 1..Len(sections) : \A j \in (i + 1)..Len(sections) :
               /\ sections[i].start < sections[j].start
               /\ sections[i].stop <= sections[j].start

\* two sections were returned, the second cut at the last boundary, for a
\* text whose boundaries were found out of order: a heading of the second
\* pattern stands before a heading of the first
C10_Witness ==
    /\ pc = "sections"
    /\ Len(sections) = 2
    /\ sections[2].start = LastBreak(text)
    /\ sections[2].stop = Len(text)
    /\ \E k \in 1..(Len(FoundBreaks(text)) - 1) :
           FoundBreaks(text)[k].pos > FoundBreaks(text)[k + 1].pos

\* the offsets of the boundaries of s
BreakOffsets(s) ==
    LET found == FoundBreaks(s) IN { found[k].pos : k \in 1..Len(found) }

\* the first boundary offset after offset a of a text of n characters, n
\* when there is none
NextOffset(offsets, a, n) ==
    LET after == { o \in offsets : o > a }
    IN  IF after = {} THEN n ELSE Min(after)

\* the offsets (0-based) from a up to b, b excluded, at which s holds a
\* character that is not white space
InkOffsets(s, a, b) == { p \in a..(b - 1) : s[p + 1] \notin Whitespace }

\* the slices s[pos:next pos] of lines 116 and 126, in the order of the
\* loops of lines 112-131
BoundarySlices(s) ==
    LET breaks == section_breaks(s)
    IN  [ i \in 1..Len(breaks) |->
            Slice(s, breaks[i].pos + 1,
                  IF i < Len(breaks) THEN breaks[i + 1].pos + 1
                  ELSE Len(s) + 1) ]

\* every character of s[a:b] that is not white space is in the content of
\* a section of secs cut from that slice, at its place
Covered(secs, s, a, b) ==
    LET ink == InkOffsets(s, a, b)
        lead == Min(ink)
    IN  \E k \in 1..Len(secs) :
            /\ secs[k].start = a
            /\ secs[k].stop = b
            /\ \A p \in ink :
                   /\ p - lead + 1 <= Len(secs[k].content)
                   /\ secs[k].content[p - lead + 1] = s[p + 1]

\* the length of s[a:b] without the white space at its ends
TrimmedLen(s, a, b) ==
    LET ink == InkOffsets(s, a, b)
    IN  IF ink = {} THEN 0
        ELSE (b - Min({ b - p : p \in ink })) - Min(ink) + 1

(* C11: the boundary slices of split_into_sections partition the text: put
   end to end, in order, they are the text.  A character that is not white
   space is missing from the contents of the returned sections only if the
   trimmed slice that holds it has no more than 100 characters. *)
C11_OnlyFilteredTextLost ==
    pc = "sections" =>
        LET offsets == BreakOffsets(text)
        IN  /\ Concat(BoundarySlices(text)) = text
            /\ \A a \in offsets :
                   LET b == NextOffset(offsets, a, Len(text))
                   IN  \/ InkOffsets(text, a, b) = {}
                       \/ Covered(sections, text, a, b)
                       \/ TrimmedLen(text, a, b) <= SectionMinLen

\* one slice was returned as a section and another, which holds a heading,
\* was dropped by the length filter; the section was cut at the last boundary
C11_Witness ==
    /\ pc = "sections"
    /\ Len(sections) = 1
    /\ sections[1].start = LastBreak(text)
    /\ sections[1].start > 0
    /\ Covered(sections, text, sections[1].start, Len(text))
    /\ InkOffsets(text, 0, sections[1].start) # {}

\* section k is the synthetic leading segment: the boundary (0, StartTitle)
\* of line 99
LeadingSegment(sec) == sec.start = 0 /\ sec.title = StartTitle

(* C15: every section returned by split_into_sections other than the
   synthetic leading segment has a content that begins with its own
   heading: its title is a prefix of its content, also when matches of
   different heading patterns overlap at different offsets. *)
C15_ContentBeginsWithTitle ==
    pc = "sections" =>
        \A k \in 1..Len(sections) :
            \/ LeadingSegment(sections[k])
            \/ StartsAt(sections[k].content, 1, sections[k].title)

\* a section with a heading was returned, and the match of another heading
\* pattern, at a smaller offset, runs over the heading of this section
C15_Witness ==
    /\ pc = "sections"
    /\ \E k \in 1..Len(sections) :
           /\ ~ LeadingSegment(sections[k])
           /\ StartsAt(sections[k].content, 1, sections[k].title)
           /\ \E b \in 1..Len(FoundBreaks(text)) :
                  /\ FoundBreaks(text)[b].pos < sections[k].start
                  /\ FoundBreaks(text)[b].pos + 1
                         + Len(FoundBreaks(text)[b].title)
                         > sections[k].start + 1

(* C16, as claimed: split_into_sections drops a boundary's slice exactly
   when its trimmed content is shorter than 100 characters; a slice whose
   trimmed content has 100 characters or more is returned as a section,
   for inner boundaries and for the last boundary alike. *)
C16_DroppedExactlyBelow100 ==
    pc = "sections" =>
        LET offsets == BreakOffsets(text)
        IN  \A a \in offsets :
                LET b == NextOffset(offsets, a, Len(text))
                IN  (\E k \in 1..Len(sections) :
                         sections[k].start = a /\ sections[k].stop = b)
                        <=> TrimmedLen(text, a, b) >= SectionMinLen

(* C16, amended: split_into_sections drops a boundary's slice exactly when
   its trimmed content has 100 characters or fewer; a slice whose trimmed
   content has more than 100 characters is returned as a section, for inner
   boundaries and for the last boundary alike. *)
C16_DroppedExactlyUpTo100 ==
    pc = "sections" =>
        LET offsets == BreakOffsets(text)
        IN  \A a \in offsets :
                LET b == NextOffset(offsets, a, Len(text))
                IN  (\E k \in 1..Len(sections) :
                         sections[k].start = a /\ sections[k].stop = b)
                        <=> TrimmedLen(text, a, b) > SectionMinLen

\* an inner slice of exactly 100 characters was dropped and the last slice,
\* of more than 100, was returned
C16_Witness ==
    /\ pc = "sections"
    /\ Len(sections) = 1
    /\ sections[1].start = LastBreak(text)
    /\ sections[1].stop = Len(text)
    /\ LET offsets == BreakOffsets(text)
       IN  \E a \in offsets :
               /\ a < LastBreak(text)
               /\ TrimmedLen(text, a, NextOffset(offsets, a, Len(text)))
                      = SectionMinLen

\* the indices of the boundaries of found that are at offset a; found is in
\* the order of lines 99-106: the leading segment, then pattern by pattern
FoundAt(found, a) == { k \in 1..Len(found) : found[k].pos = a }

(* C18: split_into_sections never returns a section with empty content and
   never two sections that start at the same offset; when several heading
   patterns yield a boundary at the same offset, the section returned for
   that offset, if any, carries the title of the pattern listed last. *)
C18_NoEmptyNoDuplicate ==
    pc = "sections" =>
        LET found == FoundBreaks(text)
        IN  /\ \A k \in 1..Len(sections) : sections[k].content # << >>
            /\ \A i \in 1..Len(sections) : \A j \in 1..Len(sections) :
                   sections[i].start = sections[j].start => i = j
            /\ \A k \in 1..Len(sections) :
                   LET same == FoundAt(found, sections[k].start)
                       last == CHOOSE m \in same : \A n \in same : n <= m
                   IN  sections[k].title = found[last].title

\* two patterns found a boundary at the same offset, with different titles,
\* and the section returned for it has the title found last
C18_Witness ==
    /\ pc = "sections"
    /\ LET found == FoundBreaks(text)
       IN  \E k \in 1..Len(sections) :
               \E m \in FoundAt(found, sections[k].start) :
                   /\ found[m].title # sections[k].title
                   /\ found[m].title # StartTitle

----------------------------------------------------------------------------
(* process_single_pdf applied to the text extract_text_from_pdf returned *)

MaxDocumentPieces == 3

DocumentPieces ==
    { << " " >>, << NL >>, << NL, NL >>, << "b", "-" >>, << "1" >>,
      << "1", ".", " ", "I", "n", "t", "r", "o" >>,
      Prose(DefaultMinLength + 1), Prose(SectionMinLen + 1) }

DocumentTexts ==
    { Concat(ps) : ps \in SeqsUpTo(DocumentPieces, MaxDocumentPieces) }

PdfNames ==
    { << "2", "1", "0", "4", ".", "0", "5", "v", "1", ".", "p", "d", "f" >>,
      << "a", ".", "p", "d", "f" >> }

InitDocument ==
    Start("process_single_pdf", DocumentTexts, { DefaultMinLength }, PdfNames)

\* the guard with the cleaned text for the raw text
NoCleanedText(raw_text) == clean_text(raw_text) = << >>

\* if not raw_text (line 207)
NoText(raw_text) == raw_text = << >>

\* pdf_path.stem: the name without its last suffix
filename_stem(name) ==
    SubSeq(name, 1,
           Len(name) - Min({ k \in 1..Len(name) :
                                name[Len(name) + 1 - k] = "." }))

\* pdf_path.name.split('.')[0] (line 234)
filename_base(name) == SubSeq(name, 1, SkipNotIn(name, 1, { "." }) - 1)

\* Lines 220-231; processed_time, the reading of the clock, is left out.
processed_data ==
    [ source_file |-> pdf_path,
      metadata |-> metadata,
      sections |-> sections,
      paragraphs |-> paragraphs,
      statistics |->
          [ total_text_length |-> Len(cleaned),
            section_count |-> Len(sections),
            paragraph_count |-> Len(paragraphs) ] ]

\* lines 206-209: no text was extracted, None is returned
ReturnNone ==
    /\ pc = "process_single_pdf"
    /\ NoText(text)
    /\ result' = None
    /\ pc' = "returned"
    /\ UNCHANGED << text, min_length, cleaned, recleaned, metadata,
                    sections, paragraphs, pdf_path, files >>
    /\ UNCHANGED << batch, ran >>

\* line 212
Clean ==
    /\ pc = "process_single_pdf"
    /\ ~ NoText(text)
    /\ cleaned' = clean_text(text)
    /\ pc' = "extract_paper_metadata"
    /\ UNCHANGED << text, min_length, recleaned, metadata, sections,
                    paragraphs, result, pdf_path, files >>
    /\ UNCHANGED << batch, ran >>

\* line 215
Metadata ==
    /\ pc = "extract_paper_metadata"
    /\ metadata' = extract_paper_metadata(cleaned)
    /\ pc' = "split_into_sections"
    /\ UNCHANGED << text, min_length, cleaned, recleaned, sections,
                    paragraphs, result, pdf_path, files >>
    /\ UNCHANGED << batch, ran >>

\* line 216
Sections ==
    /\ pc = "split_into_sections"
    /\ sections' = split_into_sections(cleaned)
    /\ pc' = "split_into_paragraphs"
    /\ UNCHANGED << text, min_length, cleaned, recleaned, metadata,
                    paragraphs, result, pdf_path, files >>
    /\ UNCHANGED << batch, ran >>

\* line 217
Paragraphs ==
    /\ pc = "split_into_paragraphs"
    /\ paragraphs' = split_into_paragraphs(cleaned, min_length)
    /\ pc' = "save_processed_data"
    /\ UNCHANGED << text, min_length, cleaned, recleaned, metadata,
                    sections, result, pdf_path, files >>
    /\ UNCHANGED << batch, ran >>

\* lines 220-243: the record is assembled, written by save_processed_data
\* to the .json file named after filename_base, and returned
Save ==
    /\ pc = "save_processed_data"
    /\ files' = [ f \in DOMAIN files \cup { filename_base(pdf_path) } |->
                    IF f = filename_base(pdf_path) THEN processed_data
                    ELSE files[f] ]
    /\ result' = processed_data
    /\ pc' = "returned"
    /\ UNCHANGED << text, min_length, cleaned, recleaned, metadata,
                    sections, paragraphs, pdf_path >>
    /\ UNCHANGED << batch, ran >>

NextDocument ==
    ReturnNone \/ Clean \/ Metadata \/ Sections \/ Paragraphs \/ Save

SpecDocument == InitDocument /\ [][NextDocument]_vars

\* the returned value is a record whose metadata, sections and paragraphs
\* are empty and whose total_text_length is 0
EmptyRecord ==
    /\ result # None
    /\ DOMAIN result.metadata = {}
    /\ result.sections = << >>
    /\ result.paragraphs = << >>
    /\ result.statistics.total_text_length = 0

(* C4, as claimed: for empty input text, process_single_pdf yields a record
   whose metadata, sections and paragraphs are all empty and whose
   statistics.total_text_length is 0. *)
C4_EmptyTextEmptyRecord ==
    (pc = "returned" /\ text = << >>) => EmptyRecord

(* C4, amended: for empty input text process_single_pdf yields no record,
   it returns None; for non-empty text that clean_text turns into the empty
   string it yields a record whose metadata, sections and paragraphs are
   all empty and whose statistics.total_text_length is 0. *)
C4_EmptyTextNoRecord ==
    pc = "returned" =>
        /\ text = << >> => result = None
        /\ (text # << >> /\ cleaned = << >>) => EmptyRecord

\* white space was all the raw text held: the record returned is empty
C4_Witness ==
    /\ pc = "returned"
    /\ text # << >>
    /\ cleaned = << >>
    /\ EmptyRecord
    /\ files[filename_base(pdf_path)] = result

\* the blocks of the raw text s: its pieces between blank lines, trimmed,
\* that are not empty
RawBlocks(s) ==
    SelectSeq(TrimmedBlocks(s), LAMBDA b : b # << >>)

(* C17: the output of clean_text never holds two consecutive newlines, so in
   process_single_pdf, where split_into_paragraphs is applied to that
   output, the list of paragraphs has at most one element for every raw
   text and statistics.paragraph_count is 0 or 1. *)
C17_AtMostOneParagraph ==
    /\ pc \notin { "process_single_pdf", "returned" } =>
           /\ ~ Contains(cleaned, << NL, NL >>)
           /\ paragraphs # Unset => Len(paragraphs) <= 1
    /\ (pc = "returned" /\ result # None) =>
           /\ ~ Contains(cleaned, << NL, NL >>)
           /\ Len(result.paragraphs) <= 1
           /\ result.statistics.paragraph_count \in { 0, 1 }

\* the raw text holds two blocks of 50 characters or more with a blank line
\* between them, and the record holds one paragraph with both
C17_Witness ==
    /\ pc = "returned"
    /\ result # None
    /\ Len(RawBlocks(text)) = 2
    /\ \A k \in 1..2 : Len(RawBlocks(text)[k]) >= DefaultMinLength
    /\ result.statistics.paragraph_count = 1
    /\ Contains(result.paragraphs[1], RawBlocks(text)[1])
    /\ Contains(result.paragraphs[1], RawBlocks(text)[2])

----------------------------------------------------------------------------
(* A batch run over the documents of data/raw: process_all_pdfs, and the
   'all' command of main *)

MaxBatch == 3

\* the file names of data/raw: three of them share the part before the
\* first '.', and the fourth has the name of the summary file
BatchNames ==
    { << "2", "1", "0", "4", ".", "0", "5", "v", "1", ".", "p", "d", "f" >>,
      << "2", "1", "0", "4", ".", "0", "9", "v", "2", ".", "p", "d", "f" >>,
      << "2", "1", "0", "4", ".", "p", "d", "f" >>,
      << "p", "r", "o", "c", "e", "s", "s", "i", "n", "g", "_",
         "s", "u", "m", "m", "a", "r", "y", ".", "p", "d", "f" >> }

\* the ways save_processed_data can end: it returns, or an exception leaves
\* it at the open of the .json file (line 167), during json.dump (line 168,
\* the file is opened and cut short) or while the .txt file is written
\* (lines 172-198, the .json file is complete)
WriteOutcomes == { "ok", "open", "dump", "txt" }

\* A document of the batch: its file name, the text its pages hold, whether
\* PdfReader can read it, and how the write of its record ends.
Documents ==
    [ name : BatchNames, pages : { << >> }, readable : { FALSE },
      write : { "ok" } ]
        \cup [ name : BatchNames, pages : { << "x" >> },
               readable : { TRUE }, write : WriteOutcomes ]

\* RAW_DIR.glob("*.pdf"): documents with distinct file names
Batches ==
    { b \in SeqsUpTo(Documents, MaxBatch) :
        \A i \in 1..Len(b) : \A j \in 1..Len(b) :
            b[i].name = b[j].name => i = j }

InitBatch ==
    /\ pc = "pdf_files"
    /\ pdf_files \in Batches
    /\ command \in { "process_all_pdfs", "main" }
    /\ index = 0
    /\ results = << >>
    /\ slides = << >>
    /\ ran = {}
    /\ text = Unset
    /\ min_length = DefaultMinLength
    /\ pdf_path = NoName
    /\ files = NoEntry
    /\ cleaned = Unset
    /\ recleaned = Unset
    /\ metadata = Unset
    /\ sections = Unset
    /\ paragraphs = Unset
    /\ result = Unset

\* Lines 13-32: the text of the pages, '' when reading raises
extract_text_from_pdf(doc) == IF doc.readable THEN doc.pages ELSE << >>

\* a truncated .json file
Torn == [ torn |-> TRUE ]

\* the name of the summary file of process_all_pdfs, without its suffix
SummaryName ==
    << "p", "r", "o", "c", "e", "s", "s", "i", "n", "g", "_",
       "s", "u", "m", "m", "a", "r", "y" >>

\* files with the file of name f holding data
Written(f, data) ==
    [ g \in DOMAIN files \cup { f } |-> IF g = f THEN data ELSE files[g] ]

\* extract_paper.py lines 248-251, main.py lines 103-106
ListFiles ==
    /\ pc = "pdf_files"
    /\ pc' = IF pdf_files = << >> THEN "done" ELSE "for pdf_path"
    /\ UNCHANGED << text, min_length, cleaned, recleaned, metadata, sections,
                    paragraphs, result, pdf_path, files, batch, ran >>

\* the loop takes the next document (extract_paper.py lines 256-258,
\* main.py lines 108-109 and 17-37) and process_single_pdf reads its text
\* (line 206)
NextPdf ==
    /\ pc = "for pdf_path"
    /\ index < Len(pdf_files)
    /\ index' = index + 1
    /\ pdf_path' = pdf_files[index + 1].name
    /\ text' = extract_text_from_pdf(pdf_files[index + 1])
    /\ cleaned' = Unset
    /\ metadata' = Unset
    /\ sections' = Unset
    /\ paragraphs' = Unset
    /\ result' = Unset
    /\ pc' = "process_single_pdf"
    /\ UNCHANGED << min_length, recleaned, files, pdf_files, command,
                    results, slides, ran >>

\* save_processed_data returns (lines 163-198, 236-243)
SaveWritten ==
    /\ pc = "save_processed_data"
    /\ pdf_files[index].write = "ok"
    /\ Save

\* save_processed_data raises (lines 166-172): the exception leaves
\* process_single_pdf
SaveRaises ==
    /\ pc = "save_processed_data"
    /\ pdf_files[index].write # "ok"
    /\ files' =
           IF pdf_files[index].write = "open" THEN files
           ELSE IF pdf_files[index].write = "dump"
           THEN Written(filename_base(pdf_path), Torn)
           ELSE Written(filename_base(pdf_path), processed_data)
    /\ pc' = "raised"
    /\ UNCHANGED << text, min_length, cleaned, recleaned, metadata, sections,
                    paragraphs, result, pdf_path, batch, ran >>

\* extract_paper.py lines 258-260
Collect ==
    /\ pc = "returned"
    /\ command = "process_all_pdfs"
    /\ results' = IF result # None THEN Append(results, result) ELSE results
    /\ pc' = "for pdf_path"
    /\ UNCHANGED << text, min_length, cleaned, recleaned, metadata, sections,
                    paragraphs, result, pdf_path, files, pdf_files, command,
                    index, slides, ran >>

\* extract_paper.py lines 261-262: except Exception
Except ==
    /\ pc = "raised"
    /\ command = "process_all_pdfs"
    /\ pc' = "for pdf_path"
    /\ UNCHANGED << text, min_length, cleaned, recleaned, metadata, sections,
                    paragraphs, result, pdf_path, files, batch, ran >>

\* extract_paper.py lines 264-282: the summary is written
Summary ==
    /\ pc = "for pdf_path"
    /\ command = "process_all_pdfs"
    /\ index = Len(pdf_files)
    /\ files' = Written(SummaryName,
           [ total_files |-> Len(pdf_files),
             successful_files |-> Len(results),
             file_statistics |->
                 [ k \in 1..Len(results) |->
                     [ filename |-> results[k].source_file,
                       sections |-> results[k].statistics.section_count,
                       paragraphs |-> results[k].statistics.paragraph_count,
                       text_length |->
                           results[k].statistics.total_text_length ] ] ])
    /\ pc' = "done"
    /\ UNCHANGED << text, min_length, cleaned, recleaned, metadata, sections,
                    paragraphs, result, pdf_path, batch, ran >>

\* main.py lines 39-41 and 110: no record, the flow of this document ends
FlowStops ==
    /\ pc = "returned"
    /\ command = "main"
    /\ result = None
    /\ pc' = "for pdf_path"
    /\ UNCHANGED << text, min_length, cleaned, recleaned, metadata, sections,
                    paragraphs, result, pdf_path, files, batch, ran >>

\* main.py lines 43-62 and 110: the record file named after filename_base
\* is there (line 49) and is handed to paper_to_slides
Slides ==
    /\ pc = "returned"
    /\ command = "main"
    /\ result # None
    /\ filename_base(pdf_path) \in DOMAIN files
    /\ slides' = Append(slides, files[filename_base(pdf_path)])
    /\ pc' = "for pdf_path"
    /\ UNCHANGED << text, min_length, cleaned, recleaned, metadata, sections,
                    paragraphs, result, pdf_path, files, pdf_files, command,
                    index, results, ran >>

\* main.py lines 108-109: nothing catches the exception, it leaves main
Uncaught ==
    /\ pc = "raised"
    /\ command = "main"
    /\ pc' = "aborted"
    /\ UNCHANGED << text, min_length, cleaned, recleaned, metadata, sections,
                    paragraphs, result, pdf_path, files, batch, ran >>

\* main.py line 108: the loop is over
LoopEnds ==
    /\ pc = "for pdf_path"
    /\ command = "main"
    /\ index = Len(pdf_files)
    /\ pc' = "done"
    /\ UNCHANGED << text, min_length, cleaned, recleaned, metadata, sections,
                    paragraphs, result, pdf_path, files, batch, ran >>

NextBatch ==
    \/ ListFiles
    \/ NextPdf
    \/ ReturnNone
    \/ Clean
    \/ Metadata
    \/ Sections
    \/ Paragraphs
    \/ SaveWritten
    \/ SaveRaises
    \/ Collect
    \/ Except
    \/ Summary
    \/ FlowStops
    \/ Slides
    \/ Uncaught
    \/ LoopEnds

SpecBatch == InitBatch /\ [][NextBatch]_vars

\* the run is over: the loop ended or an exception left it
Over == pc \in { "done", "aborted" }

(* C12: in a batch run, by process_all_pdfs or by the 'all' command of
   main, a document whose PDF cannot be decoded or whose record cannot be
   written is skipped: the run is never ended by it, and when the run is
   over every document of the batch has been attempted. *)
C12_FailureSkipsOneDocument ==
    /\ pc # "aborted"
    /\ Over => index = Len(pdf_files)

----------------------------------------------------------------------------
(* process_single_pdf with its three extractors run as tasks, in any order,
   joined before the record is assembled *)

MaxTaskPieces == 2

TaskTexts == { Concat(ps) : ps \in SeqsUpTo(DocumentPieces, MaxTaskPieces) }

InitTasks ==
    Start("process_single_pdf", TaskTexts, { DefaultMinLength }, PdfNames)

Extractors == { "metadata", "sections", "paragraphs" }

\* line 212, then the three extractors are started
CleanForTasks ==
    /\ pc = "process_single_pdf"
    /\ ~ NoText(text)
    /\ cleaned' = clean_text(text)
    /\ pc' = "extractors"
    /\ UNCHANGED << text, min_length, recleaned, metadata, sections,
                    paragraphs, result, pdf_path, files, batch, ran >>

\* line 215, as a task
MetadataTask ==
    /\ pc = "extractors"
    /\ "metadata" \notin ran
    /\ metadata' = extract_paper_metadata(cleaned)
    /\ ran' = ran \cup { "metadata" }
    /\ UNCHANGED << pc, text, min_length, cleaned, recleaned, sections,
                    paragraphs, result, pdf_path, files, batch >>

\* a sections task that consumes the text it has split
SectionsTaskConsuming ==
    /\ pc = "extractors"
    /\ "sections" \notin ran
    /\ sections' = split_into_sections(cleaned)
    /\ cleaned' = << >>
    /\ ran' = ran \cup { "sections" }
    /\ UNCHANGED << pc, text, min_length, recleaned, metadata,
                    paragraphs, result, pdf_path, files, batch >>

\* line 216, as a task
SectionsTask ==
    /\ pc = "extractors"
    /\ "sections" \notin ran
    /\ sections' = split_into_sections(cleaned)
    /\ ran' = ran \cup { "sections" }
    /\ UNCHANGED << pc, text, min_length, cleaned, recleaned, metadata,
                    paragraphs, result, pdf_path, files, batch >>

\* line 217, as a task
ParagraphsTask ==
    /\ pc = "extractors"
    /\ "paragraphs" \notin ran
    /\ paragraphs' = split_into_paragraphs(cleaned, min_length)
    /\ ran' = ran \cup { "paragraphs" }
    /\ UNCHANGED << pc, text, min_length, cleaned, recleaned, metadata,
                    sections, result, pdf_path, files, batch >>

\* the three tasks have returned: the record is assembled (line 220)
JoinTasks ==
    /\ pc = "extractors"
    /\ ran = Extractors
    /\ pc' = "save_processed_data"
    /\ UNCHANGED << text, min_length, cleaned, recleaned, metadata, sections,
                    paragraphs, result, pdf_path, files, batch, ran >>

NextTasks ==
    \/ ReturnNone
    \/ CleanForTasks
    \/ MetadataTask
    \/ SectionsTask
    \/ ParagraphsTask
    \/ JoinTasks
    \/ Save

SpecTasks == InitTasks /\ [][NextTasks]_vars

\* the record process_single_pdf assembles in the order of lines 215-217
\* for the cleaned text t
SequentialRecord(t) ==
    [ metadata |-> extract_paper_metadata(t),
      sections |-> split_into_sections(t),
      paragraphs |-> split_into_paragraphs(t, DefaultMinLength),
      statistics |->
          [ total_text_length |-> Len(t),
            section_count |-> Len(split_into_sections(t)),
            paragraph_count |->
                Len(split_into_paragraphs(t, DefaultMinLength)) ] ]

(* C13: the three extractors only read the normalised text: whichever of
   them have run, in whatever order, the text is still the one clean_text
   returned and each has returned what it returns when run in the order of
   the source; the record assembled is the same for every order, with
   section_count the number of sections and paragraph_count the number of
   paragraphs. *)
C13_AnyOrderSameRecord ==
    (pc \in { "extractors", "save_processed_data" }
        \/ (pc = "returned" /\ result # None)) =>
        LET rec == SequentialRecord(clean_text(text))
        IN  /\ cleaned = clean_text(text)
            /\ "metadata" \in ran => metadata = rec.metadata
            /\ "sections" \in ran => sections = rec.sections
            /\ "paragraphs" \in ran => paragraphs = rec.paragraphs
            /\ pc = "returned" =>
                   /\ result.metadata = rec.metadata
                   /\ result.sections = rec.sections
                   /\ result.paragraphs = rec.paragraphs
                   /\ result.statistics = rec.statistics
                   /\ result.statistics.section_count = Len(result.sections)
                   /\ result.statistics.paragraph_count
                          = Len(result.paragraphs)

\* the three tasks ran and the record holds a title, a section and a
\* paragraph
C13_Witness ==
    /\ pc = "returned"
    /\ result # None
    /\ ran = Extractors
    /\ "title" \in DOMAIN result.metadata
    /\ result.statistics.section_count = 1
    /\ result.statistics.paragraph_count = 1

----------------------------------------------------------------------------
(* The record files after a batch run *)

\* the part of the file name of document i before its first '.'
Prefix(i) ==
    LET name == pdf_files[i].name
        dots == { k \in 1..Len(name) : name[k] = "." }
    IN  [ k \in 1..(Min(dots) - 1) |-> name[k] ]

\* document i was processed with success: process_single_pdf returned its
\* record
Succeeded(i) ==
    /\ i <= index
    /\ pdf_files[i].readable
    /\ pdf_files[i].pages # << >>
    /\ pdf_files[i].write = "ok"

\* document i opened its record file for writing
Opened(i) ==
    /\ i <= index
    /\ pdf_files[i].readable
    /\ pdf_files[i].pages # << >>
    /\ pdf_files[i].write # "open"

\* the record of document i
RecordOf(i) ==
    [ source_file |-> pdf_files[i].name ]
        @@ SequentialRecord(clean_text(pdf_files[i].pages))

\* the greatest element of a set of numbers
Greatest(S) == CHOOSE m \in S : \A n \in S : n <= m

(* C19, as claimed: the record of a document is written to a path derived
   only from the part of its file name before the first '.': when two
   documents processed with success share that prefix, the record file of
   the prefix holds after the run the record of the one processed last;
   the record of a document whose prefix no other document of the batch
   has is still in its file after the run. *)
C19_LastSuccessRemains ==
    Over =>
        \A i \in 1..index :
            Succeeded(i) =>
                LET same == { k \in 1..index :
                                Succeeded(k) /\ Prefix(k) = Prefix(i) }
                IN  /\ Prefix(i) \in DOMAIN files
                    /\ (Cardinality(same) >= 2
                           \/ \A k \in 1..index :
                                  Prefix(k) = Prefix(i) => k = i) =>
                           files[Prefix(i)] = RecordOf(Greatest(same))

\* process_all_pdfs has written its summary: it returns before that when
\* data/raw holds no PDF
SummaryWritten ==
    command = "process_all_pdfs" /\ pc = "done" /\ pdf_files # << >>

(* C19, amended: after the run the record file of a prefix holds what the
   last document of that prefix that opened it left there: the record of
   that document, also when its processing then failed while the text file
   was written, or a truncated file when json.dump failed.  So of two
   documents processed with success that share the prefix only the record
   of the one processed last remains, unless a later document of the prefix
   failed after it had opened the file; the documents of other prefixes
   never change the file.  The file of the prefix 'processing_summary' is
   the one exception: process_all_pdfs writes its summary there. *)
C19_LastWriterRemains ==
    Over =>
        /\ \A i \in 1..index :
               LET writers == { k \in 1..index :
                                   Opened(k) /\ Prefix(k) = Prefix(i) }
               IN  IF Prefix(i) = SummaryName /\ SummaryWritten
                   THEN TRUE
                   ELSE IF writers = {} THEN Prefix(i) \notin DOMAIN files
                   ELSE /\ Prefix(i) \in DOMAIN files
                        /\ files[Prefix(i)] =
                               IF pdf_files[Greatest(writers)].write = "dump"
                               THEN Torn
                               ELSE RecordOf(Greatest(writers))
        /\ SummaryWritten =>
               /\ SummaryName \in DOMAIN files
               /\ files[SummaryName].total_files = Len(pdf_files)
               /\ files[SummaryName].successful_files
                      = Cardinality({ i \in 1..index : Succeeded(i) })
        /\ \A f \in DOMAIN files :
               \/ f = SummaryName /\ SummaryWritten
               \/ \E i \in 1..index : f = Prefix(i)

\* three documents were processed with success, the first and the last of
\* one prefix: the record of the last is in the file of the prefix and the
\* record of the second is in its own
C19_Witness ==
    /\ Over
    /\ index = 3
    /\ \A i \in 1..3 : Succeeded(i)
    /\ Prefix(1) = Prefix(3)
    /\ Prefix(2) # Prefix(1)
    /\ files[Prefix(1)] = RecordOf(3)
    /\ files[Prefix(1)] # RecordOf(1)
    /\ files[Prefix(2)] = RecordOf(2)

====
